---------------------------- MODULE Spec2Model ----------------------------
(***************************************************************************)
(* BAC planner (Streamlit): watson_tbw_liters, parse_bac, make_plan and    *)
(* the Calculate handler of main, in the mass variant                      *)
(* (bac_planner_python_program.py) and the volume variant                  *)
(* (bac_planner_python_program(1).py).                                     *)
(*                                                                         *)
(* Numbers.  Python floats are modelled by exact rationals <<n, d>> in     *)
(* lowest terms with d > 0; every decimal literal of the source is the     *)
(* rational it denotes (0.789 is 789/1000).                                *)
(*                                                                         *)
(* Text.  A str is a sequence of one-character strings.  The character     *)
(* U+2030 (per mille sign) is written "o/oo".  The alphabet is: digits,    *)
(* ".", "-", "+", "%", "o/oo", "/", " ", and ASCII letters.  On this       *)
(* alphabet float() accepts exactly [sign] digits [. digits] and           *)
(* [sign] . digits  (no letter sequence of the alphabet used below spells  *)
(* inf, nan or an exponent).                                               *)
(***************************************************************************)
EXTENDS Integers, Sequences, FiniteSets, TLC

VARIABLES
    sex, weight, height, age, duration, target_bac_input, \* widget values of main
    variant,    \* which program runs: "mass" or "volume"
    pc,         \* "idle", or "done" once the operation under study has run
    parsed,     \* outcome of the last parse_bac call
    inp,        \* the Inputs value handed to make_plan (a sequence: <<>> or <<Inputs>>)
    plan,       \* Plan of the mass variant   (<<>> or <<Plan>>)
    planVol,    \* Plan of the volume variant (<<>> or <<Plan>>)
    gramsVol,   \* gram locals of the volume variant's make_plan (<<>> or <<locals>>)
    display     \* what the Calculate run rendered, in order

vars == <<sex, weight, height, age, duration, target_bac_input, variant, pc,
          parsed, inp, plan, planVol, gramsVol, display>>

----------------------------------------------------------------------------
(* Rational arithmetic standing for float arithmetic.  Each operation is a  *)
(* function applied to its arguments, so an argument is evaluated once.    *)

Abs(n) == IF n < 0 THEN -n ELSE n

gcd[a \in Nat, b \in Nat] == IF b = 0 THEN a ELSE gcd[b, a % b]

GCD(a, b) == gcd[a, b]

\* numerator-denominator pairs
Pair == Int \X Int

\* n/d in lowest terms, d > 0 (d # 0 required)
Rat(n, d) ==
    LET rat[x \in Int, y \in Int] ==
            LET g  == GCD(Abs(x), Abs(y))
                sg == IF y < 0 THEN -1 ELSE 1
            IN  <<(sg * x) \div g, (sg * y) \div g>>
    IN  rat[n, d]

FromInt(i) == <<i, 1>>

RAdd(a, b) ==
    LET add[x \in Pair, y \in Pair] ==
            LET g == GCD(x[2], y[2])
                l == (x[2] \div g) * y[2]
            IN  Rat(x[1] * (l \div x[2]) + y[1] * (l \div y[2]), l)
    IN  add[a, b]

RNeg(a) ==
    LET neg[x \in Pair] == <<-x[1], x[2]>>
    IN  neg[a]

RSub(a, b) == RAdd(a, RNeg(b))

RMul(a, b) ==
    LET mul[x \in Pair, y \in Pair] ==
            LET g1 == GCD(Abs(x[1]), y[2])
                g2 == GCD(Abs(y[1]), x[2])
            IN  Rat((x[1] \div g1) * (y[1] \div g2), (x[2] \div g2) * (y[2] \div g1))
    IN  mul[a, b]

\* b # 0: every divisor in the source is a nonzero literal
RDiv(a, b) ==
    LET inv[y \in Pair] == Rat(y[2], y[1])
    IN  RMul(a, inv[b])

RLess(a, b) == RSub(a, b)[1] < 0

RPos(a) == a[1] > 0

pow10[k \in Nat] == IF k = 0 THEN 1 ELSE 10 * pow10[k - 1]

Pow10(k) == pow10[k]

\* format spec ".kf": the value rounded to k decimals, as an integer count of
\* 10^-k units.  An exact decimal tie goes to even; a float is rarely such a
\* tie, so a rendered last digit may differ there from the float's.
Fmt(a, k) ==
    LET fmt[x \in Pair] ==
            LET q == x[1] \div x[2]
                r == x[1] % x[2]
            IN  IF 2 * r < x[2] THEN q
                ELSE IF 2 * r > x[2] THEN q + 1
                ELSE IF q % 2 = 0 THEN q ELSE q + 1
    IN  fmt[RMul(a, FromInt(Pow10(k)))]

----------------------------------------------------------------------------
(* Text *)

PERMIL == "o/oo"

Digits == {"0", "1", "2", "3", "4", "5", "6", "7", "8", "9"}

DigitVal(c) ==
    CASE c = "0" -> 0 [] c = "1" -> 1 [] c = "2" -> 2 [] c = "3" -> 3
      [] c = "4" -> 4 [] c = "5" -> 5 [] c = "6" -> 6 [] c = "7" -> 7
      [] c = "8" -> 8 [] c = "9" -> 9

\* str.lower() on the alphabet
LowerChar(c) ==
    CASE c = "P" -> "p" [] c = "E" -> "e" [] c = "R" -> "r" [] c = "M" -> "m"
      [] c = "I" -> "i" [] c = "L" -> "l" [] c = "X" -> "x"
      [] OTHER -> c

Lower(s) == [i \in 1..Len(s) |-> LowerChar(s[i])]

\* str.strip(): leading and trailing whitespace removed
Str == Seq(STRING)

lstrip[s \in Str] == IF s # <<>> /\ Head(s) = " " THEN lstrip[Tail(s)] ELSE s

rstrip[s \in Str] ==
    IF s # <<>> /\ s[Len(s)] = " " THEN rstrip[SubSeq(s, 1, Len(s) - 1)] ELSE s

Strip(s) == rstrip[lstrip[s]]

\* str.replace(" ", "")
IsNotSpace(c) == c # " "
RemoveSpaces(s) == SelectSeq(s, IsNotSpace)

\* x in s (substring test)
Contains(s, x) ==
    \E i \in 0..(Len(s) - Len(x)) : SubSeq(s, i + 1, i + Len(x)) = x

EndsWith(s, suf) ==
    /\ Len(s) >= Len(suf)
    /\ SubSeq(s, Len(s) - Len(suf) + 1, Len(s)) = suf

Permille == <<"p", "e", "r", "m", "i", "l", "l", "e">>
Per1000 == <<"/", "1", "0", "0", "0">>

\* the list of the any(...) scan
Markers == << <<PERMIL>>, Permille, Per1000 >>

\* the list of the for-loop
Suffixes == << <<"%">>, <<PERMIL>>, Permille, Per1000 >>

\* s = value.strip().lower().replace(" ", "")
Normalize(value) == RemoveSpaces(Lower(Strip(value)))

\* is_permille = any(x in s for x in [...])
IsPermille(s) == \E i \in 1..Len(Markers) : Contains(s, Markers[i])

\* index in Suffixes of the suffix the loop strips, 0 when none matches
StrippedSuffix(s) ==
    LET m == {i \in 1..Len(Suffixes) : EndsWith(s, Suffixes[i])}
    IN  IF m = {} THEN 0 ELSE CHOOSE i \in m : \A j \in m : i <= j

\* the for-loop with its break left out
StripSuffixNoBreak(s) ==
    LET Cut(t, i) == IF EndsWith(t, Suffixes[i])
                     THEN SubSeq(t, 1, Len(t) - Len(Suffixes[i])) ELSE t
    IN  Cut(Cut(Cut(Cut(s, 1), 2), 3), 4)

\* the for-loop: the first matching suffix is cut off once, then break
StripSuffix(s) ==
    LET i == StrippedSuffix(s)
    IN  IF i = 0 THEN s ELSE SubSeq(s, 1, Len(s) - Len(Suffixes[i]))

\* float(s): does the text denote a number
IsFloat(s) ==
    LET b    == IF s # <<>> /\ Head(s) \in {"-", "+"} THEN Tail(s) ELSE s
        dots == {i \in 1..Len(b) : b[i] = "."}
    IN  /\ \A i \in 1..Len(b) : b[i] \in Digits \cup {"."}
        /\ Cardinality(dots) <= 1
        /\ \E i \in 1..Len(b) : b[i] \in Digits

digitsVal[ds \in Str] ==
    IF ds = <<>> THEN 0
    ELSE 10 * digitsVal[SubSeq(ds, 1, Len(ds) - 1)] + DigitVal(ds[Len(ds)])

DigitsVal(ds) == digitsVal[ds]

IsDigit(c) == c \in Digits

\* float(s) for a text IsFloat accepts
FloatValue(s) ==
    LET neg  == s # <<>> /\ Head(s) = "-"
        b    == IF s # <<>> /\ Head(s) \in {"-", "+"} THEN Tail(s) ELSE s
        dots == {i \in 1..Len(b) : b[i] = "."}
        frac == IF dots = {} THEN 0 ELSE Len(b) - (CHOOSE i \in dots : TRUE)
        n    == DigitsVal(SelectSeq(b, IsDigit))
    IN  Rat(IF neg THEN -n ELSE n, Pow10(frac))

Zero == FromInt(0)

\* outcome of a call: raised = TRUE is the ValueError of float(); value is
\* meaningful only when raised = FALSE
Raised == [raised |-> TRUE, value |-> Zero]
Returned(x) == [raised |-> FALSE, value |-> x]
NotCalled == [raised |-> FALSE, value |-> Zero]

PermilleScale == Rat(1, 10)

parse_bac_narrow_scan(value) ==
    LET scan[s \in Str] ==
            LET is_permille == Contains(s, <<PERMIL>>)
                x[r \in Str] ==
                    IF ~IsFloat(r) THEN Raised
                    ELSE IF is_permille THEN Returned(RMul(FloatValue(r), PermilleScale))
                    ELSE Returned(FloatValue(r))
            IN  x[StripSuffix(s)]
    IN  scan[Normalize(value)]

parse_bac_scale_1000(value) ==
    LET scan[s \in Str] ==
            LET is_permille == IsPermille(s)
                x[r \in Str] ==
                    IF ~IsFloat(r) THEN Raised
                    ELSE IF is_permille THEN Returned(RMul(FloatValue(r), Rat(1, 1000)))
                    ELSE Returned(FloatValue(r))
            IN  x[StripSuffix(s)]
    IN  scan[Normalize(value)]

parse_bac_no_break(value) ==
    LET scan[s \in Str] ==
            LET is_permille == IsPermille(s)
                x[r \in Str] ==
                    IF ~IsFloat(r) THEN Raised
                    ELSE IF is_permille THEN Returned(RMul(FloatValue(r), PermilleScale))
                    ELSE Returned(FloatValue(r))
            IN  x[StripSuffixNoBreak(s)]
    IN  scan[Normalize(value)]

parse_bac(value) ==
    LET scan[s \in Str] ==
            LET is_permille == IsPermille(s)
                x[r \in Str] ==
                    IF ~IsFloat(r) THEN Raised
                    ELSE IF is_permille THEN Returned(RMul(FloatValue(r), PermilleScale))
                    ELSE Returned(FloatValue(r))
            IN  x[StripSuffix(s)]
    IN  scan[Normalize(value)]

\* parse_bac of the volume program (same text as the mass program's)
parse_bac_v(value) ==
    LET scan[s \in Str] ==
            LET is_permille == IsPermille(s)
                x[r \in Str] ==
                    IF ~IsFloat(r) THEN Raised
                    ELSE IF is_permille THEN Returned(RMul(FloatValue(r), PermilleScale))
                    ELSE Returned(FloatValue(r))
            IN  x[StripSuffix(s)]
    IN  scan[Normalize(value)]

----------------------------------------------------------------------------
(* Watson total body water and the dosing plan *)

MaleFormula(weight_kg, height_cm, age_years) ==
    RAdd(RAdd(RSub(Rat(2447, 1000), RMul(Rat(9516, 100000), FromInt(age_years))),
              RMul(Rat(1074, 10000), height_cm)),
         RMul(Rat(3362, 10000), weight_kg))

FemaleFormula(weight_kg, height_cm) ==
    RAdd(RAdd(Rat(-2097, 1000), RMul(Rat(1069, 10000), height_cm)),
         RMul(Rat(2466, 10000), weight_kg))

watson_tbw_liters_else_male(s, weight_kg, height_cm, age_years) ==
    IF s = "female" THEN FemaleFormula(weight_kg, height_cm)
    ELSE MaleFormula(weight_kg, height_cm, age_years)

watson_tbw_liters_misplaced_point(s, weight_kg, height_cm, age_years) ==
    IF s = "male" THEN MaleFormula(weight_kg, height_cm, age_years)
    ELSE RAdd(RAdd(Rat(-2097, 100), RMul(Rat(1069, 10000), height_cm)),
              RMul(Rat(2466, 10000), weight_kg))

watson_tbw_liters_age_sign(s, weight_kg, height_cm, age_years) ==
    IF s = "male"
    THEN RAdd(RAdd(RAdd(Rat(2447, 1000), RMul(Rat(9516, 100000), FromInt(age_years))),
                   RMul(Rat(1074, 10000), height_cm)),
              RMul(Rat(3362, 10000), weight_kg))
    ELSE FemaleFormula(weight_kg, height_cm)

watson_tbw_liters(s, weight_kg, height_cm, age_years) ==
    IF s = "male" THEN MaleFormula(weight_kg, height_cm, age_years)
    ELSE FemaleFormula(weight_kg, height_cm)

\* watson_tbw_liters of the volume program
watson_tbw_liters_v(s, weight_kg, height_cm, age_years) ==
    IF s = "male"
    THEN RAdd(RAdd(RSub(Rat(2447, 1000), RMul(Rat(9516, 100000), FromInt(age_years))),
                   RMul(Rat(1074, 10000), height_cm)),
              RMul(Rat(3362, 10000), weight_kg))
    ELSE RAdd(RAdd(Rat(-2097, 1000), RMul(Rat(1069, 10000), height_cm)),
              RMul(Rat(2466, 10000), weight_kg))

\* default of the dataclass field beta
DefaultBeta == Rat(15, 1000)

\* the dataclasses, as sets of records
InputsT ==
    [sex : STRING, weight_kg : Pair, height_cm : Pair, age_years : Int,
     duration_hours : Pair, target_bac : Pair, beta : Pair]

PlanT ==
    [tbw_L : Pair, tbw_dL : Pair, loading_grams : Pair, maintenance_g_per_h : Pair,
     total_grams_for_duration : Pair, std_drinks_12g : Pair, std_drinks_14g : Pair]

PlanVT ==
    [tbw_L : Pair, tbw_dL : Pair, loading_ml : Pair, maintenance_ml_per_h : Pair,
     total_ml_for_duration : Pair, std_drinks_12g : Pair, std_drinks_14g : Pair]

Inputs(s, weight_kg, height_cm, age_years, duration_hours, target_bac, beta) ==
    [sex |-> s, weight_kg |-> weight_kg, height_cm |-> height_cm,
     age_years |-> age_years, duration_hours |-> duration_hours,
     target_bac |-> target_bac, beta |-> beta]

make_plan_total_forgets_duration(arg) ==
    LET build[i \in InputsT] ==
            LET tbw_L  == watson_tbw_liters(i.sex, i.weight_kg, i.height_cm, i.age_years)
                tbw_dL == RMul(tbw_L, FromInt(10))
                loading_grams == RMul(i.target_bac, tbw_dL)
                maintenance_g_per_h == RMul(i.beta, tbw_dL)
                total_grams_for_duration ==
                    RAdd(loading_grams, maintenance_g_per_h)
            IN  [tbw_L |-> tbw_L, tbw_dL |-> tbw_dL,
                 loading_grams |-> loading_grams,
                 maintenance_g_per_h |-> maintenance_g_per_h,
                 total_grams_for_duration |-> total_grams_for_duration,
                 std_drinks_12g |-> RDiv(total_grams_for_duration, FromInt(12)),
                 std_drinks_14g |-> RDiv(total_grams_for_duration, FromInt(14))]
    IN  build[arg]

make_plan(arg) ==
    LET build[i \in InputsT] ==
            LET tbw_L  == watson_tbw_liters(i.sex, i.weight_kg, i.height_cm, i.age_years)
                tbw_dL == RMul(tbw_L, FromInt(10))
                loading_grams == RMul(i.target_bac, tbw_dL)
                maintenance_g_per_h == RMul(i.beta, tbw_dL)
                total_grams_for_duration ==
                    RAdd(loading_grams, RMul(maintenance_g_per_h, i.duration_hours))
            IN  [tbw_L |-> tbw_L, tbw_dL |-> tbw_dL,
                 loading_grams |-> loading_grams,
                 maintenance_g_per_h |-> maintenance_g_per_h,
                 total_grams_for_duration |-> total_grams_for_duration,
                 std_drinks_12g |-> RDiv(total_grams_for_duration, FromInt(12)),
                 std_drinks_14g |-> RDiv(total_grams_for_duration, FromInt(14))]
    IN  build[arg]

ETHANOL_DENSITY == Rat(789, 1000)

GramsT ==
    [tbw_L : Pair, tbw_dL : Pair, loading_grams : Pair, maintenance_g_per_h : Pair,
     total_grams_for_duration : Pair]

\* the gram locals of the volume program's make_plan, before the conversion
make_plan_v_grams(arg) ==
    LET build[i \in InputsT] ==
            LET tbw_L  == watson_tbw_liters_v(i.sex, i.weight_kg, i.height_cm, i.age_years)
                tbw_dL == RMul(tbw_L, FromInt(10))
                loading_grams == RMul(i.target_bac, tbw_dL)
                maintenance_g_per_h == RMul(i.beta, tbw_dL)
            IN  [tbw_L |-> tbw_L, tbw_dL |-> tbw_dL,
                 loading_grams |-> loading_grams,
                 maintenance_g_per_h |-> maintenance_g_per_h,
                 total_grams_for_duration |->
                     RAdd(loading_grams, RMul(maintenance_g_per_h, i.duration_hours))]
    IN  build[arg]

make_plan_v_total_from_loading(arg) ==
    LET convert[g \in GramsT] ==
            [tbw_L |-> g.tbw_L, tbw_dL |-> g.tbw_dL,
             loading_ml |-> RDiv(g.loading_grams, ETHANOL_DENSITY),
             maintenance_ml_per_h |-> RDiv(g.maintenance_g_per_h, ETHANOL_DENSITY),
             total_ml_for_duration |-> RDiv(g.loading_grams, ETHANOL_DENSITY),
             std_drinks_12g |-> RDiv(g.total_grams_for_duration, FromInt(12)),
             std_drinks_14g |-> RDiv(g.total_grams_for_duration, FromInt(14))]
    IN  convert[make_plan_v_grams(arg)]

\* make_plan of the volume program: the gram locals, then the conversion
make_plan_v(arg) ==
    LET convert[g \in GramsT] ==
            [tbw_L |-> g.tbw_L, tbw_dL |-> g.tbw_dL,
             loading_ml |-> RDiv(g.loading_grams, ETHANOL_DENSITY),
             maintenance_ml_per_h |-> RDiv(g.maintenance_g_per_h, ETHANOL_DENSITY),
             total_ml_for_duration |-> RDiv(g.total_grams_for_duration, ETHANOL_DENSITY),
             std_drinks_12g |-> RDiv(g.total_grams_for_duration, FromInt(12)),
             std_drinks_14g |-> RDiv(g.total_grams_for_duration, FromInt(14))]
    IN  convert[make_plan_v_grams(arg)]

BEVERAGES ==
    << <<"Beer (5%)", Rat(5, 100)>>, <<"Wine (12%)", Rat(12, 100)>>,
       <<"Fortified Wine (18%)", Rat(18, 100)>>, <<"Spirits (40%)", Rat(40, 100)>> >>

ethanol_to_beverage_volume(ethanol_ml, abv) == RDiv(ethanol_ml, abv)

----------------------------------------------------------------------------
(* Rendering of main *)

Item(kind, label, vals, arg) == [kind |-> kind, label |-> label, vals |-> vals, arg |-> arg]

\* st.error(f"Error: {e}"): the ValueError message quotes the text float() refused
ErrorItem(r) == Item("error", "Error: could not convert string to float", <<>>, r)

\* the st.* calls of the mass program after make_plan
RenderMass(p, d) ==
    << Item("subheader", "Results", <<>>, <<>>),
       Item("write", "TBW estimate L", <<Fmt(p.tbw_L, 2)>>, <<>>),
       Item("write", "Loading dose g", <<Fmt(p.loading_grams, 1)>>, <<>>),
       Item("write", "Maintenance rate g/h", <<Fmt(p.maintenance_g_per_h, 1)>>, <<>>),
       Item("write", "Total ethanol g", <<Fmt(p.total_grams_for_duration, 1)>>, d),
       Item("write", "12g drinks | 14g drinks",
            <<Fmt(p.std_drinks_12g, 1), Fmt(p.std_drinks_14g, 1)>>, <<>>),
       Item("info", "How to interpret", <<>>, <<>>) >>

\* the st.* calls of the volume program after make_plan
RenderVol(p, d) ==
    << Item("subheader", "Results (Pure Ethanol)", <<>>, <<>>),
       Item("write", "TBW estimate L", <<Fmt(p.tbw_L, 2)>>, <<>>),
       Item("write", "Loading dose mL", <<Fmt(p.loading_ml, 1)>>, <<>>),
       Item("write", "Maintenance rate mL/h", <<Fmt(p.maintenance_ml_per_h, 1)>>, <<>>),
       Item("write", "Total ethanol mL", <<Fmt(p.total_ml_for_duration, 1)>>, d),
       Item("write", "12g drinks | 14g drinks",
            <<Fmt(p.std_drinks_12g, 1), Fmt(p.std_drinks_14g, 1)>>, <<>>),
       Item("subheader", "Equivalent Beverage Volumes (Total)", <<>>, <<>>) >>
    \o [b \in 1..Len(BEVERAGES) |->
          LET total_vol == ethanol_to_beverage_volume(p.total_ml_for_duration, BEVERAGES[b][2])
          IN  Item("write", BEVERAGES[b][1],
                   <<Fmt(total_vol, 0), Fmt(RDiv(total_vol, FromInt(1000)), 2)>>, <<>>)]
    \o << Item("subheader", "Per-Hour Maintenance Suggestion", <<>>, <<>>) >>
    \o [b \in 1..Len(BEVERAGES) |->
          LET per_hour_vol == ethanol_to_beverage_volume(p.maintenance_ml_per_h, BEVERAGES[b][2])
          IN  Item("write", BEVERAGES[b][1], <<Fmt(per_hour_vol, 0)>>, <<>>)]
    \o << Item("info", "Loading dose is taken at start", <<>>, <<>>) >>

\* what one run of the script leaves behind
Outcome(t, i, p, pv, g, shown) ==
    [parsed |-> t, inp |-> i, plan |-> p, planVol |-> pv, gramsVol |-> g, display |-> shown]

OutcomeT == [raised : BOOLEAN, value : Pair]

main_calculate_default_on_error(s, w, h, a, d, text) ==
    LET after_parse[t \in OutcomeT] ==
            LET after_plan[i \in InputsT, p \in PlanT] ==
                    Outcome(t, <<i>>, <<p>>, <<>>, <<>>,
                            IF t.raised
                            THEN <<ErrorItem(StripSuffix(Normalize(text)))>> \o RenderMass(p, d)
                            ELSE RenderMass(p, d))
                inputs == Inputs(s, w, h, a, d, IF t.raised THEN Zero ELSE t.value, DefaultBeta)
            IN  after_plan[inputs, make_plan(inputs)]
    IN  after_parse[parse_bac(text)]

\* the body of "if st.button('Calculate'):" in the mass program: parse_bac,
\* Inputs, make_plan and the st.* calls inside try; st.error in except
main_calculate(s, w, h, a, d, text) ==
    LET after_parse[t \in OutcomeT] ==
            IF t.raised
            THEN Outcome(t, <<>>, <<>>, <<>>, <<>>, <<ErrorItem(StripSuffix(Normalize(text)))>>)
            ELSE LET after_plan[i \in InputsT, p \in PlanT] ==
                         Outcome(t, <<i>>, <<p>>, <<>>, <<>>, RenderMass(p, d))
                     inputs == Inputs(s, w, h, a, d, t.value, DefaultBeta)
                 IN  after_plan[inputs, make_plan(inputs)]
    IN  after_parse[parse_bac(text)]

\* the body of "if st.button('Calculate'):" in the volume program
main_calculate_v(s, w, h, a, d, text) ==
    LET after_parse[t \in OutcomeT] ==
            IF t.raised
            THEN Outcome(t, <<>>, <<>>, <<>>, <<>>, <<ErrorItem(StripSuffix(Normalize(text)))>>)
            ELSE LET after_plan[i \in InputsT, p \in PlanVT] ==
                         Outcome(t, <<i>>, <<>>, <<p>>, <<make_plan_v_grams(i)>>, RenderVol(p, d))
                     inputs == Inputs(s, w, h, a, d, t.value, DefaultBeta)
                 IN  after_plan[inputs, make_plan_v(inputs)]
    IN  after_parse[parse_bac_v(text)]

\* a script run in which the button is not pressed renders no result
NoOutcome == Outcome(NotCalled, <<>>, <<>>, <<>>, <<>>, <<>>)

----------------------------------------------------------------------------
(* Inputs of the model *)

T_0_08 == <<"0", ".", "0", "8">>    \* '0.08'
T_0_05pct == <<"0", ".", "0", "5", "%">>    \* '0.05%'
T_0_5permil == <<"0", ".", "5", "o/oo">>    \* '0.5o/oo'
T_50permille == <<"5", "0", "p", "e", "r", "m", "i", "l", "l", "e">>    \* '50permille'
T_abc_pct == <<"a", "b", "c", "%">>    \* 'abc%'
T_neg_0_05pct == <<"-", "0", ".", "0", "5", "%">>    \* '-0.05%'
T_5permil_x_pct == <<"5", "o/oo", "x", "%">>    \* '5o/oox%'
T_0_05_per1000 == <<"0", ".", "0", "5", "/", "1", "0", "0", "0">>    \* '0.05/1000'
T_5pct == <<"5", "%">>    \* '5%'
T_5permille == <<"5", "p", "e", "r", "m", "i", "l", "l", "e">>    \* '5permille'
T_spaced_upper == <<" ", "0", ".", "5", " ", "P", "e", "r", "M", "i", "l", "l", "e", " ">>    \* ' 0.5 PerMille '

\* texts typed into the "Target BAC" field in the Calculate flow
UITexts ==
    { <<>>, T_0_08, T_0_05pct, T_0_5permil, T_abc_pct, T_neg_0_05pct,
      T_5permil_x_pct, T_0_05_per1000, T_spaced_upper }

\* pieces texts are assembled from
Pieces ==
    { <<"0">>, <<"5">>, <<".">>, <<"-">>, <<"%">>, <<PERMIL>>, Permille,
      <<"P", "e", "r", "M", "i", "l", "l", "e">>, Per1000, <<"x">>, <<" ">> }

\* longest assembled text, in pieces
MaxParts == 3

textsOfParts[k \in Nat] ==
    IF k = 0 THEN {<<>>}
    ELSE textsOfParts[k - 1] \cup {t \o p : t \in textsOfParts[k - 1], p \in Pieces}

TextsOfParts(k) == textsOfParts[k]

SampleTexts ==
    { T_0_08, T_0_05pct, T_0_5permil, T_50permille, T_abc_pct, T_neg_0_05pct,
      T_5permil_x_pct, T_0_05_per1000, T_5pct, T_5permille, T_spaced_upper }

Texts == SampleTexts \cup TextsOfParts(MaxParts)

Variants == {"mass", "volume"}

\* st.selectbox("Sex", ["male", "female"])
SexOptions == <<"male", "female">>

\* min_value and max_value of the number_input widgets
WeightMin == FromInt(30)
WeightMax == FromInt(200)
HeightMin == FromInt(120)
HeightMax == FromInt(220)
AgeMin == FromInt(15)
AgeMax == FromInt(100)
DurationMin == Rat(1, 2)
DurationMax == FromInt(24)

InRange(lo, x, hi) == ~RLess(x, lo) /\ ~RLess(hi, x)

\* values a user tries to enter; the widgets refuse those out of range
WeightsTried == {FromInt(10), FromInt(30), FromInt(80), Rat(161, 2), FromInt(200), FromInt(250)}
HeightsTried == {FromInt(100), FromInt(120), FromInt(180), FromInt(220), FromInt(230)}
AgesTried == {10, 15, 30, 100, 101}
DurationsTried == {FromInt(0), Rat(1, 2), FromInt(3), FromInt(24), FromInt(25)}

\* arguments of direct calls of make_plan
PlanInputs ==
    { Inputs(s, w, h, a, d, t, b) :
        s \in {"male", "female", "other"},
        w \in {FromInt(-10), FromInt(80)},
        h \in {FromInt(0), FromInt(180)},
        a \in {30, 200},
        d \in {FromInt(0), Rat(1, 2), FromInt(3)},
        t \in {Rat(-1, 20), FromInt(0), Rat(2, 25)},
        b \in {FromInt(0), DefaultBeta, Rat(1, 50)} }

----------------------------------------------------------------------------
(* The Calculate flow of main *)

Init ==
    /\ sex = SexOptions[1]
    /\ weight = WeightMin
    /\ height = HeightMin
    /\ age = AgeMin[1]
    /\ duration = DurationMin
    /\ target_bac_input = <<>>
    /\ variant \in Variants
    /\ pc = "idle"
    /\ parsed = NotCalled
    /\ inp = <<>>
    /\ plan = <<>>
    /\ planVol = <<>>
    /\ gramsVol = <<>>
    /\ display = <<>>

\* a widget change reruns the script with the button not pressed
Rerun ==
    /\ pc' = "idle"
    /\ parsed' = NoOutcome.parsed
    /\ inp' = NoOutcome.inp
    /\ plan' = NoOutcome.plan
    /\ planVol' = NoOutcome.planVol
    /\ gramsVol' = NoOutcome.gramsVol
    /\ display' = NoOutcome.display
    /\ UNCHANGED variant

SelectSex ==
    /\ \E k \in 1..Len(SexOptions) : sex' = SexOptions[k]
    /\ Rerun
    /\ UNCHANGED <<weight, height, age, duration, target_bac_input>>

SetWeight ==
    /\ \E w \in WeightsTried : InRange(WeightMin, w, WeightMax) /\ weight' = w
    /\ Rerun
    /\ UNCHANGED <<sex, height, age, duration, target_bac_input>>

SetHeight ==
    /\ \E h \in HeightsTried : InRange(HeightMin, h, HeightMax) /\ height' = h
    /\ Rerun
    /\ UNCHANGED <<sex, weight, age, duration, target_bac_input>>

SetAge ==
    /\ \E a \in AgesTried : InRange(AgeMin, FromInt(a), AgeMax) /\ age' = a
    /\ Rerun
    /\ UNCHANGED <<sex, weight, height, duration, target_bac_input>>

SetDuration ==
    /\ \E d \in DurationsTried : InRange(DurationMin, d, DurationMax) /\ duration' = d
    /\ Rerun
    /\ UNCHANGED <<sex, weight, height, age, target_bac_input>>

TypeTargetBac ==
    /\ \E t \in UITexts : target_bac_input' = t
    /\ Rerun
    /\ UNCHANGED <<sex, weight, height, age, duration>>

\* pressing Calculate: one script run with the button pressed
Calculate ==
    \E o \in {IF variant = "mass"
              THEN main_calculate(sex, weight, height, age, duration, target_bac_input)
              ELSE main_calculate_v(sex, weight, height, age, duration, target_bac_input)} :
        /\ pc' = "done"
        /\ parsed' = o.parsed
        /\ inp' = o.inp
        /\ plan' = o.plan
        /\ planVol' = o.planVol
        /\ gramsVol' = o.gramsVol
        /\ display' = o.display
        /\ UNCHANGED <<sex, weight, height, age, duration, target_bac_input, variant>>

Next ==
    \/ SelectSex
    \/ SetWeight
    \/ SetHeight
    \/ SetAge
    \/ SetDuration
    \/ TypeTargetBac
    \/ Calculate

Spec == Init /\ [][Next]_vars

----------------------------------------------------------------------------
(* Direct calls of parse_bac *)

InitParse ==
    /\ target_bac_input \in Texts
    /\ variant \in Variants
    /\ sex = SexOptions[1]
    /\ weight = WeightMin
    /\ height = HeightMin
    /\ age = AgeMin[1]
    /\ duration = DurationMin
    /\ pc = "idle"
    /\ parsed = NotCalled
    /\ inp = <<>>
    /\ plan = <<>>
    /\ planVol = <<>>
    /\ gramsVol = <<>>
    /\ display = <<>>

CallParseBac ==
    /\ pc = "idle"
    /\ parsed' = IF variant = "mass" THEN parse_bac(target_bac_input)
                 ELSE parse_bac_v(target_bac_input)
    /\ pc' = "done"
    /\ UNCHANGED <<sex, weight, height, age, duration, target_bac_input, variant,
                   inp, plan, planVol, gramsVol, display>>

NextParse == CallParseBac

SpecParse == InitParse /\ [][NextParse]_vars

----------------------------------------------------------------------------
(* Direct calls of make_plan, both programs on the same Inputs *)

InitPlan ==
    /\ inp \in {<<i>> : i \in PlanInputs}
    /\ variant \in Variants
    /\ sex = SexOptions[1]
    /\ weight = WeightMin
    /\ height = HeightMin
    /\ age = AgeMin[1]
    /\ duration = DurationMin
    /\ target_bac_input = <<>>
    /\ pc = "idle"
    /\ parsed = NotCalled
    /\ plan = <<>>
    /\ planVol = <<>>
    /\ gramsVol = <<>>
    /\ display = <<>>

CallMakePlan ==
    /\ plan = <<>>
    /\ plan' = <<make_plan(inp[1])>>
    /\ UNCHANGED <<sex, weight, height, age, duration, target_bac_input, variant, pc,
                   parsed, inp, planVol, gramsVol, display>>

CallMakePlanV ==
    /\ planVol = <<>>
    /\ planVol' = <<make_plan_v(inp[1])>>
    /\ gramsVol' = <<make_plan_v_grams(inp[1])>>
    /\ UNCHANGED <<sex, weight, height, age, duration, target_bac_input, variant, pc,
                   parsed, inp, plan, display>>

NextPlan ==
    \/ CallMakePlan
    \/ CallMakePlanV

SpecPlan == InitPlan /\ [][NextPlan]_vars

----------------------------------------------------------------------------
(* Properties *)

\* the three permille markers, restated for the properties
HasMarker(s) == Contains(s, <<PERMIL>>) \/ Contains(s, Permille) \/ Contains(s, Per1000)

\* C1: every plan make_plan returns has loading_grams = target_bac * tbw_dL,
\* maintenance_g_per_h = beta * tbw_dL and total_grams_for_duration =
\* loading_grams + maintenance_g_per_h * duration_hours; the gram locals of the
\* volume program's make_plan satisfy the same identities.
C1_TotalIdentity ==
    /\ \A k \in 1..Len(plan) :
          /\ plan[k].loading_grams = RMul(inp[1].target_bac, plan[k].tbw_dL)
          /\ plan[k].maintenance_g_per_h = RMul(inp[1].beta, plan[k].tbw_dL)
          /\ plan[k].total_grams_for_duration =
                RAdd(plan[k].loading_grams,
                     RMul(plan[k].maintenance_g_per_h, inp[1].duration_hours))
    /\ \A k \in 1..Len(gramsVol) :
          /\ gramsVol[k].loading_grams = RMul(inp[1].target_bac, gramsVol[k].tbw_dL)
          /\ gramsVol[k].maintenance_g_per_h = RMul(inp[1].beta, gramsVol[k].tbw_dL)
          /\ gramsVol[k].total_grams_for_duration =
                RAdd(gramsVol[k].loading_grams,
                     RMul(gramsVol[k].maintenance_g_per_h, inp[1].duration_hours))

C1_Witness ==
    /\ plan # <<>>
    /\ gramsVol # <<>>
    /\ inp[1].duration_hours = FromInt(3)
    /\ inp[1].beta = Rat(1, 50)
    /\ inp[1].target_bac = Rat(2, 25)
    /\ RPos(plan[1].tbw_dL)
    /\ plan[1].total_grams_for_duration # plan[1].loading_grams

\* C2: a value parse_bac returns is the numeric part times 0.1 when the
\* normalized text contains "o/oo", "permille" or "/1000", and the numeric part
\* itself otherwise; "0.05%" gives 0.05, "0.5o/oo" gives 0.05, "50permille"
\* gives 5.0 and "0.08" gives 0.08.
C2_ParseBacScaling ==
    pc = "done" =>
        /\ ~parsed.raised =>
              parsed.value =
                  IF HasMarker(Normalize(target_bac_input))
                  THEN RMul(FloatValue(StripSuffix(Normalize(target_bac_input))), Rat(1, 10))
                  ELSE FloatValue(StripSuffix(Normalize(target_bac_input)))
        /\ target_bac_input = T_0_05pct => parsed = Returned(Rat(5, 100))
        /\ target_bac_input = T_0_5permil => parsed = Returned(Rat(5, 100))
        /\ target_bac_input = T_50permille => parsed = Returned(FromInt(5))
        /\ target_bac_input = T_0_08 => parsed = Returned(Rat(8, 100))

C2_Witness ==
    /\ pc = "done"
    /\ target_bac_input = T_0_5permil
    /\ parsed = Returned(Rat(1, 20))

\* C3: parse_bac raises exactly when the text left after suffix stripping is
\* not a floating-point number ("abc%" raises); a Calculate run whose parse
\* raised built no Inputs and no plan and rendered the error message alone.
C3_ParseFailureShowsOnlyError ==
    pc = "done" =>
        /\ parsed.raised <=> ~IsFloat(StripSuffix(Normalize(target_bac_input)))
        /\ target_bac_input = T_abc_pct => parsed.raised
        /\ parsed.raised =>
              /\ inp = <<>>
              /\ plan = <<>>
              /\ planVol = <<>>
              /\ gramsVol = <<>>
              /\ Len(display) = 1
              /\ display[1].kind = "error"
        /\ ~parsed.raised => \A k \in 1..Len(display) : display[k].kind # "error"

C3_Witness ==
    /\ pc = "done"
    /\ target_bac_input = T_abc_pct
    /\ parsed.raised
    /\ Len(display) = 1

\* C4: every Inputs value the Calculate flow hands to make_plan has
\* target_bac >= 0.
C4_TargetBacNonNegative ==
    \A k \in 1..Len(inp) : ~RLess(inp[k].target_bac, Zero)

\* C5: male, 80 kg, 180 cm, 30 years, 3 h, text "0.08", default beta 0.015:
\* tbw_L = 45.8202, tbw_dL = 458.202, loading_grams = 36.656,
\* maintenance_g_per_h = 6.873, total_grams = 57.275 (three decimals),
\* std_drinks_12g = 4.77 and std_drinks_14g = 4.09 (two decimals).
C5_Scenario ==
    ( /\ pc = "done"
      /\ sex = "male"
      /\ weight = FromInt(80)
      /\ height = FromInt(180)
      /\ age = 30
      /\ duration = FromInt(3)
      /\ target_bac_input = T_0_08 )
    => /\ inp # <<>>
       /\ inp[1].target_bac = Rat(8, 100)
       /\ inp[1].beta = Rat(15, 1000)
       /\ variant = "mass" =>
             /\ plan # <<>>
             /\ plan[1].tbw_L = Rat(458202, 10000)
             /\ plan[1].tbw_dL = Rat(458202, 1000)
             /\ Fmt(plan[1].loading_grams, 3) = 36656
             /\ Fmt(plan[1].maintenance_g_per_h, 3) = 6873
             /\ Fmt(plan[1].total_grams_for_duration, 3) = 57275
             /\ Fmt(plan[1].std_drinks_12g, 2) = 477
             /\ Fmt(plan[1].std_drinks_14g, 2) = 409
       /\ variant = "volume" =>
             /\ planVol # <<>>
             /\ planVol[1].tbw_L = Rat(458202, 10000)
             /\ planVol[1].tbw_dL = Rat(458202, 1000)
             /\ Fmt(gramsVol[1].loading_grams, 3) = 36656
             /\ Fmt(gramsVol[1].maintenance_g_per_h, 3) = 6873
             /\ Fmt(gramsVol[1].total_grams_for_duration, 3) = 57275
             /\ Fmt(planVol[1].std_drinks_12g, 2) = 477
             /\ Fmt(planVol[1].std_drinks_14g, 2) = 409

C5_Witness ==
    /\ pc = "done"
    /\ variant = "mass"
    /\ sex = "male"
    /\ weight = FromInt(80)
    /\ height = FromInt(180)
    /\ age = 30
    /\ duration = FromInt(3)
    /\ target_bac_input = T_0_08
    /\ plan # <<>>

\* C6: on the same Inputs the two programs' make_plan agree on the grams: same
\* tbw_L, tbw_dL, std_drinks_12g and std_drinks_14g, the volume program's gram
\* locals equal the mass plan's gram fields, and each millilitre field is the
\* mass plan's gram field divided by 0.789.
C6_VariantsAgree ==
    (plan # <<>> /\ planVol # <<>>) =>
        /\ planVol[1].tbw_L = plan[1].tbw_L
        /\ planVol[1].tbw_dL = plan[1].tbw_dL
        /\ planVol[1].std_drinks_12g = plan[1].std_drinks_12g
        /\ planVol[1].std_drinks_14g = plan[1].std_drinks_14g
        /\ gramsVol[1].loading_grams = plan[1].loading_grams
        /\ gramsVol[1].maintenance_g_per_h = plan[1].maintenance_g_per_h
        /\ gramsVol[1].total_grams_for_duration = plan[1].total_grams_for_duration
        /\ planVol[1].loading_ml = RDiv(plan[1].loading_grams, Rat(789, 1000))
        /\ planVol[1].maintenance_ml_per_h =
              RDiv(plan[1].maintenance_g_per_h, Rat(789, 1000))
        /\ planVol[1].total_ml_for_duration =
              RDiv(plan[1].total_grams_for_duration, Rat(789, 1000))

C6_Witness ==
    /\ plan # <<>>
    /\ planVol # <<>>
    /\ inp[1].sex = "male"
    /\ inp[1].weight_kg = FromInt(80)
    /\ inp[1].height_cm = FromInt(180)
    /\ inp[1].target_bac = Rat(2, 25)
    /\ RPos(planVol[1].total_ml_for_duration)

\* the text has a permille marker before its trailing suffix, and that
\* trailing suffix (the one the loop strips) is a different one
MarkerBeforeOtherSuffix(s) ==
    /\ StrippedSuffix(s) # 0
    /\ \E j \in 1..Len(Markers) :
          /\ Markers[j] # Suffixes[StrippedSuffix(s)]
          /\ Contains(StripSuffix(s), Markers[j])

\* C7 as stated: for a text with a permille marker in the middle and a
\* different trailing suffix, parse_bac returns the parsed number times 0.1.
C7_MiddleMarkerScales ==
    (pc = "done" /\ MarkerBeforeOtherSuffix(Normalize(target_bac_input))) =>
        /\ ~parsed.raised
        /\ parsed.value = RMul(FloatValue(StripSuffix(Normalize(target_bac_input))), Rat(1, 10))

\* C7 amended: for a text with a permille marker in the middle and a different
\* trailing suffix, the permille scan is true but parse_bac returns nothing: the
\* marker is still in the text handed to float(), which raises.
C7_MiddleMarkerRaises ==
    (pc = "done" /\ MarkerBeforeOtherSuffix(Normalize(target_bac_input))) =>
        /\ IsPermille(Normalize(target_bac_input))
        /\ parsed.raised

C7_Witness ==
    /\ pc = "done"
    /\ target_bac_input = T_5permil_x_pct
    /\ MarkerBeforeOtherSuffix(Normalize(target_bac_input))
    /\ parsed.raised

\* C8 as stated: no plan (no TBW value) is ever produced for a sex value other
\* than "male" or "female".
C8_OnlyTwoSexesEvaluated ==
    (plan # <<>> \/ planVol # <<>>) => inp[1].sex \in {"male", "female"}

\* C8 amended: watson_tbw_liters tests sex = "male" and has a default branch:
\* "male" is evaluated with the male formula and every other value, "female"
\* or not, with the female formula, so a TBW value is returned for it.
C8_ElseBranchIsFemaleFormula ==
    /\ \A k \in 1..Len(plan) :
          plan[k].tbw_L =
              IF inp[1].sex = "male"
              THEN MaleFormula(inp[1].weight_kg, inp[1].height_cm, inp[1].age_years)
              ELSE FemaleFormula(inp[1].weight_kg, inp[1].height_cm)
    /\ \A k \in 1..Len(planVol) :
          planVol[k].tbw_L =
              IF inp[1].sex = "male"
              THEN MaleFormula(inp[1].weight_kg, inp[1].height_cm, inp[1].age_years)
              ELSE FemaleFormula(inp[1].weight_kg, inp[1].height_cm)

C8_Witness ==
    /\ plan # <<>>
    /\ inp[1].sex = "other"
    /\ plan[1].tbw_L = FemaleFormula(inp[1].weight_kg, inp[1].height_cm)

\* C9: the widgets hold sex in {male, female}, weight in 30..200, height in
\* 120..220, age in 15..100, and every plan a Calculate run builds has
\* tbw_L > 0 and tbw_dL > 0.
C9_TbwPositive ==
    /\ sex \in {"male", "female"}
    /\ InRange(FromInt(30), weight, FromInt(200))
    /\ InRange(FromInt(120), height, FromInt(220))
    /\ age \in 15..100
    /\ \A k \in 1..Len(plan) : RPos(plan[k].tbw_L) /\ RPos(plan[k].tbw_dL)
    /\ \A k \in 1..Len(planVol) : RPos(planVol[k].tbw_L) /\ RPos(planVol[k].tbw_dL)

C9_Witness ==
    /\ pc = "done"
    /\ plan # <<>>
    /\ sex = "female"
    /\ weight = FromInt(30)
    /\ height = FromInt(120)
    /\ RPos(plan[1].tbw_L)

\* parse_bac as one suffix-to-scale mapping: the stripped suffix alone decides
\* the scale
SuffixScaleParse(value) ==
    LET s == Normalize(value)
        k == StrippedSuffix(s)
        r == StripSuffix(s)
    IN  IF ~IsFloat(r) THEN Raised
        ELSE IF k \in {2, 3, 4} THEN Returned(RMul(FloatValue(r), Rat(1, 10)))
        ELSE Returned(FloatValue(r))

\* C10: parse_bac equals the single suffix-to-scale mapping on every text: a
\* returned value is scaled exactly when the stripped suffix is "o/oo",
\* "permille" or "/1000", unscaled exactly when it is "%" or none, and a text
\* in which a marker remains after the one strip raises.
C10_SingleMapping ==
    pc = "done" =>
        /\ parsed = SuffixScaleParse(target_bac_input)
        /\ ~parsed.raised =>
              (HasMarker(Normalize(target_bac_input))
                  <=> StrippedSuffix(Normalize(target_bac_input)) \in {2, 3, 4})
        /\ HasMarker(StripSuffix(Normalize(target_bac_input))) => parsed.raised

C10_Witness ==
    /\ pc = "done"
    /\ target_bac_input = T_5permille
    /\ StrippedSuffix(Normalize(target_bac_input)) = 3
    /\ parsed = Returned(Rat(1, 2))

=============================================================================
